---------------------------- MODULE Spec2Model ----------------------------
(***************************************************************************)
(* Model of reqs-updater (src/src/main.py): one invocation of main() on a  *)
(* requirements file, the lookups it fans out to the package index, the    *)
(* decision loop and the final write or dry-run report.                    *)
(*                                                                         *)
(* Text is modelled at token granularity: a string is a sequence of        *)
(* tokens, a token being one indivisible piece of text (a whitespace       *)
(* character, "#", a package name, an operator, a version string, ...).    *)
(* The string operations of the source (rstrip, split, strip, slicing,     *)
(* concatenation) act on these sequences exactly as Python's act on        *)
(* characters.                                                             *)
(*                                                                         *)
(* Lines 61-66 read private attributes of the packaging library:           *)
(* req.specifier._specs[0]._op and ._version.  The repository pins no      *)
(* release of packaging.  In the releases 21.3 to 26.2 _specs is a         *)
(* frozenset or a tuple of Specifier objects, which have no _op and no     *)
(* _version, so line 62 raises TypeError or AttributeError as soon as a    *)
(* line carries exactly one version constraint.  Both outcomes are         *)
(* modelled (private_attrs): the attributes exist and mean what the code   *)
(* takes them for (_op the operator, _version the parsed Version), or the  *)
(* access raises.                                                          *)
(***************************************************************************)
EXTENDS Integers, Sequences, FiniteSets, TLC

(***************************************************************************)
(* Bounds of the model.                                                    *)
(***************************************************************************)
\* longest file, in lines
MaxLines == 2
\* invocations of the tool in sequence on the same file
MaxRuns == 2
\* most distinct package names handed to the thread pool in PoolSpec
MaxPoolNames == 22

(***************************************************************************)
(* Tokens.                                                                 *)
(***************************************************************************)
LF == "\n"
CR == "\r"
SP == " "
HASH == "#"
\* str.strip()/lstrip()/rstrip() without arguments strip these
PyWhitespace == {SP, "\t", LF, CR}
NameTokens == {"flask", "numpy"}
ExtraTokens == {"security", "socks"}
OpTokens == {"==", ">=", "<"}
\* an environment marker as written in a file, and as str(Marker) prints it
MarkerRaw == "python_version>'3.6'"
MarkerNorm == "python_version > \"3.6\""
MarkerTokens == {MarkerRaw, MarkerNorm}
\* what get_latest_version returns when the lookup fails
None == "<None>"

VARIABLES
    disk,             \* content of args.file, a token sequence
    input_disk,       \* content of args.file when the process started
    dry_run,          \* args.dry_run
    private_attrs,    \* whether packaging exposes _specs[0]._op / ._version
    run,              \* number of the current invocation
    pc,               \* position of main(): read, classify, resolve, decide,
                      \* output, exit
    exit_code,        \* process exit status once pc = "exit", else -1
    io_failed,        \* "none", "read" or "write": the OSError that occurred
    lines,            \* f.readlines()
    new_lines,
    updatable_infos,
    packages_to_fetch,
    lookup,           \* per name: none, queued, running, done, collected
    future_result,    \* per name: what its future holds once done
    package_versions, \* per name: latest_str, or None when absent
    pypi,             \* per name: what the index answers, once asked
    requests_made,    \* per name: requests.get calls of this run
    changes,
    stdout,
    stderr,
    reads,            \* times args.file was opened for reading in this run
    writes,           \* times args.file was opened for writing in this run
    prev_changes,     \* changes recorded by the earlier runs
    pool_pending,     \* PoolSpec: names not yet submitted
    pool_queued,      \* PoolSpec: work items waiting in the executor's queue
    pool_running,     \* PoolSpec: lookups in flight
    pool_done         \* PoolSpec: lookups finished

mainVars == <<disk, input_disk, dry_run, private_attrs, run, pc, exit_code,
              io_failed, lines, new_lines, updatable_infos, packages_to_fetch,
              lookup, future_result, package_versions, pypi, requests_made,
              changes, stdout, stderr, reads, writes, prev_changes>>
poolVars == <<pool_pending, pool_queued, pool_running, pool_done>>
vars == <<mainVars, poolVars>>

(***************************************************************************)
(* Python string operations on token sequences.                            *)
(***************************************************************************)
RECURSIVE Concat(_)
\* "".join(parts) / f.writelines(parts)
Concat(parts) ==
    IF parts = <<>> THEN <<>> ELSE Head(parts) \o Concat(Tail(parts))

RECURSIVE RStripSet(_, _)
\* s.rstrip(chars)
RStripSet(s, chars) ==
    IF s # <<>> /\ s[Len(s)] \in chars
    THEN RStripSet(SubSeq(s, 1, Len(s) - 1), chars)
    ELSE s

RECURSIVE LStripSet(_, _)
\* s.lstrip(chars)
LStripSet(s, chars) ==
    IF s # <<>> /\ s[1] \in chars THEN LStripSet(Tail(s), chars) ELSE s

\* s.strip()
Strip(s) == LStripSet(RStripSet(s, PyWhitespace), PyWhitespace)

\* index of the first occurrence of tok in s, 0 when there is none
FirstIndex(s, tok) ==
    IF \E i \in 1..Len(s) : s[i] = tok
    THEN CHOOSE i \in 1..Len(s) :
            s[i] = tok /\ \A j \in 1..(i - 1) : s[j] # tok
    ELSE 0

\* s[-n:] : Python reads -0 as 0, so s[-0:] is the whole of s
SliceFromNeg(s, n) ==
    IF n = 0 THEN s ELSE SubSeq(s, Len(s) - n + 1, Len(s))

(***************************************************************************)
(* open(..., "r") with the default newline=None: universal newlines, every *)
(* "\r\n" and lone "\r" is translated to "\n" before the line split.       *)
(***************************************************************************)
RECURSIVE TranslateNewlines(_)
TranslateNewlines(s) ==
    IF s = <<>> THEN <<>>
    ELSE IF s[1] = CR
         THEN IF Len(s) >= 2 /\ s[2] = LF
              THEN <<LF>> \o TranslateNewlines(SubSeq(s, 3, Len(s)))
              ELSE <<LF>> \o TranslateNewlines(Tail(s))
         ELSE <<s[1]>> \o TranslateNewlines(Tail(s))

RECURSIVE SplitKeepEnds(_)
\* the lines of s, each with its "\n"; a last line may have none
SplitKeepEnds(s) ==
    IF s = <<>> THEN <<>>
    ELSE LET i == FirstIndex(s, LF) IN
         IF i = 0 THEN <<s>>
         ELSE <<SubSeq(s, 1, i)>> \o SplitKeepEnds(SubSeq(s, i + 1, Len(s)))

\* f.readlines()
ReadLines(text) == SplitKeepEnds(TranslateNewlines(text))

(***************************************************************************)
(* packaging.version: parse() and the ordering of Version.                 *)
(***************************************************************************)
\* the release segment of a version string; <<>> when parse() raises
Release(s) ==
    CASE s = "1.0"   -> <<1, 0>>
      [] s = "1.0.0" -> <<1, 0, 0>>
      [] s = "1.9"   -> <<1, 9>>
      [] s = "1.10"  -> <<1, 10>>
      [] s = "2.0"   -> <<2, 0>>
      [] OTHER       -> <<>>

IsVersion(s) == Release(s) # <<>>

\* segment i of a release, missing segments count as 0
Seg(r, i) == IF i <= Len(r) THEN r[i] ELSE 0

\* Version(a) > Version(b), release segments compared component-wise
VersionGT(a, b) ==
    LET ra == Release(a)
        rb == Release(b)
        n == IF Len(ra) > Len(rb) THEN Len(ra) ELSE Len(rb)
    IN \E i \in 1..n :
          /\ Seg(ra, i) > Seg(rb, i)
          /\ \A j \in 1..(i - 1) : Seg(ra, j) = Seg(rb, j)

(***************************************************************************)
(* packaging.requirements.Requirement(req_str): name, optional extras in   *)
(* brackets, optional comma-separated version constraints, optional        *)
(* ";"-marker; whitespace between tokens is not significant.               *)
(***************************************************************************)
Unparsable == [ok |-> FALSE, name |-> "", extras |-> {}, specs |-> <<>>,
               marker |-> None]

\* constraints: OP VERSION ("," OP VERSION)*, or nothing
SpecsOk(t) ==
    \/ t = <<>>
    \/ /\ Len(t) % 3 = 2
       /\ \A i \in 1..Len(t) :
             CASE i % 3 = 1 -> t[i] \in OpTokens
               [] i % 3 = 2 -> IsVersion(t[i])
               [] OTHER     -> t[i] = ","

SpecsOf(t) ==
    [k \in 1..((Len(t) + 1) \div 3) |->
        [op |-> t[3 * k - 2], version |-> t[3 * k - 1]]]

\* extras: EXTRA ("," EXTRA)*, or nothing
ExtrasOk(t) ==
    \/ t = <<>>
    \/ /\ Len(t) % 2 = 1
       /\ \A i \in 1..Len(t) :
             IF i % 2 = 1 THEN t[i] \in ExtraTokens ELSE t[i] = ","

ExtrasOf(t) == {t[i] : i \in {j \in 1..Len(t) : j % 2 = 1}}

Requirement(req_str) ==
    LET t == SelectSeq(req_str, LAMBDA x : x \notin PyWhitespace)
        close == FirstIndex(t, "]")
        hasExtras == Len(t) >= 2 /\ t[2] = "["
        inner == IF hasExtras /\ close > 0 THEN SubSeq(t, 3, close - 1)
                 ELSE <<>>
        rest == IF hasExtras THEN SubSeq(t, close + 1, Len(t))
                ELSE SubSeq(t, 2, Len(t))
        semi == FirstIndex(rest, ";")
        specPart == IF semi = 0 THEN rest ELSE SubSeq(rest, 1, semi - 1)
        markPart == IF semi = 0 THEN <<>>
                    ELSE SubSeq(rest, semi + 1, Len(rest))
    IN IF /\ t # <<>>
          /\ t[1] \in NameTokens
          /\ hasExtras => (close > 0 /\ ExtrasOk(inner))
          /\ SpecsOk(specPart)
          /\ semi # 0 => (Len(markPart) = 1 /\ markPart[1] \in MarkerTokens)
       THEN [ok |-> TRUE, name |-> t[1], extras |-> ExtrasOf(inner),
             specs |-> SpecsOf(specPart),
             marker |-> IF semi = 0 THEN None ELSE markPart[1]]
       ELSE Unparsable

\* str(req.marker): the marker re-printed in packaging's normal form
MarkerStr(m) == IF m \in MarkerTokens THEN MarkerNorm ELSE m

ExtraRank(e) == IF e = "security" THEN 1 ELSE 2

RECURSIVE SortedJoin(_)
\* ",".join(sorted(extras))
SortedJoin(es) ==
    IF es = {} THEN <<>>
    ELSE LET m == CHOOSE e \in es :
                     \A f \in es : ExtraRank(e) <= ExtraRank(f)
         IN IF es = {m} THEN <<m>>
            ELSE <<m, ",">> \o SortedJoin(es \ {m})


(***************************************************************************)
(* The files the runs start from: up to MaxLines lines, each one of the    *)
(* line shapes of a requirements file, under one newline convention, the   *)
(* last line terminated or not.                                            *)
(***************************************************************************)
OptionTokens == {"-r"}
Note == "note"

SampleBodies == {
    <<>>,
    <<HASH, Note>>,
    <<"-r">>,
    <<"==", "1.0">>,
    <<"numpy">>,
    <<"numpy", ">=", "1.0">>,
    <<"flask", "==", "1.0", ",", "<", "2.0">>,
    <<"flask", "==", "1.0">>,
    <<"flask", "==", "1.10", HASH, Note>>,
    <<"flask", "==", "1.0", SP, SP, HASH, SP, Note>>,
    <<SP, "numpy", "==", "1.0", SP>>,
    <<"numpy", "[", "socks", ",", "security", "]", "==", "1.10", ";", SP,
      MarkerRaw, SP, HASH, Note>> }

Terminators == {<<LF>>, <<CR, LF>>, <<CR>>}

\* the text of a file from its line bodies, terminator eol, the last line
\* terminated when final
FileText(bodies, eol, final) ==
    Concat([i \in 1..Len(bodies) |->
               bodies[i] \o (IF i < Len(bodies) \/ final THEN eol ELSE <<>>)])

InputFiles ==
    {FileText(b, eol, final) :
        b \in UNION {[1..n -> SampleBodies] : n \in 0..MaxLines},
        eol \in Terminators, final \in BOOLEAN}

\* answers of the package index for a name: a version string, a string that
\* is no version, or a failed lookup (None)
IndexAnswers == {"1.0.0", "1.9", "2.0", "oops", None}

(***************************************************************************)
(* main(), lines 42-93: the classification of one line.                    *)
(***************************************************************************)
\* line 47
LineStripped(line) == RStripSet(line, {LF, CR})

\* lines 49-50: line_stripped.split("#", 1)[0]
SpecPart(line_stripped) ==
    LET h == FirstIndex(line_stripped, HASH)
    IN IF h = 0 THEN line_stripped ELSE SubSeq(line_stripped, 1, h - 1)

\* line 51: the text after the first "#", <<None>> when there is no "#"
CommentPart(line_stripped) ==
    LET h == FirstIndex(line_stripped, HASH)
    IN IF h = 0 THEN <<None>>
       ELSE SubSeq(line_stripped, h + 1, Len(line_stripped))

\* line 53
SkippedEarly(req_str) ==
    req_str = <<>> \/ req_str[1] \in OptionTokens \cup {HASH}

\* lines 69-73
LeadingWs(spec_part) ==
    SubSeq(spec_part, 1,
           Len(spec_part) - Len(LStripSet(spec_part, PyWhitespace)))

TrailingWs(spec_part) ==
    LET leading_len == Len(spec_part) - Len(LStripSet(spec_part, PyWhitespace))
        temp == SubSeq(spec_part, leading_len + 1, Len(spec_part))
        trailing_len == Len(temp) - Len(RStripSet(temp, PyWhitespace))
    IN SliceFromNeg(temp, trailing_len)

\* line 75
ExtrasStr(extras) ==
    IF extras # {} THEN <<"[">> \o SortedJoin(extras) \o <<"]">> ELSE <<>>

\* line 76
MarkerStrOf(marker) ==
    IF marker # None THEN <<";", SP, MarkerStr(marker)>> ELSE <<>>

\* lines 78-90; temp_index counts from 1 here, from 0 in the source
Info(line, line_num, req) ==
    [line_num |-> line_num,
     name |-> req.name,
     current_version |-> req.specs[1].version,
     extras_str |-> ExtrasStr(req.extras),
     marker_str |-> MarkerStrOf(req.marker),
     leading_ws |-> LeadingWs(SpecPart(LineStripped(line))),
     trailing_ws |-> TrailingWs(SpecPart(LineStripped(line))),
     comment_part |-> CommentPart(LineStripped(line)),
     has_eol |-> Len(line) > Len(LineStripped(line)),
     line_stripped |-> LineStripped(line),
     temp_index |-> line_num]

\* lines 47-66: "pass" (the line is kept), "candidate", or "raise": with
\* exactly one constraint, line 62 reads specs[0]._op, which raises where
\* packaging has no such private attributes
Classify(line, attrs) ==
    LET req_str == Strip(SpecPart(LineStripped(line)))
        req == Requirement(req_str)
    IN IF SkippedEarly(req_str) THEN "pass"
       ELSE IF ~req.ok THEN "pass"
       ELSE IF Len(req.specs) # 1 THEN "pass"
       ELSE IF ~attrs THEN "raise"
       ELSE IF req.specs[1].op # "==" THEN "pass"
       ELSE "candidate"

ReqOf(line) == Requirement(Strip(SpecPart(LineStripped(line))))

\* updatable_infos after the loop of lines 46-93
InfosOf(ls, attrs) ==
    LET idx == {i \in 1..Len(ls) : Classify(ls[i], attrs) = "candidate"}
        RECURSIVE Build(_)
        Build(i) ==
            IF i > Len(ls) THEN <<>>
            ELSE (IF i \in idx THEN <<Info(ls[i], i, ReqOf(ls[i]))>> ELSE <<>>)
                 \o Build(i + 1)
    IN Build(1)

NoLookups == [p \in NameTokens |-> "none"]
NoResults == [p \in NameTokens |-> None]
NoRequests == [p \in NameTokens |-> 0]

(***************************************************************************)
(* Initial states: the process has parsed its arguments (lines 19-33).     *)
(***************************************************************************)
Init ==
    /\ disk \in InputFiles
    /\ input_disk = disk
    /\ dry_run \in BOOLEAN
    /\ private_attrs \in BOOLEAN
    /\ run = 1
    /\ pc = "read"
    /\ exit_code = -1
    /\ io_failed = "none"
    /\ lines = <<>>
    /\ new_lines = <<>>
    /\ updatable_infos = <<>>
    /\ packages_to_fetch = {}
    /\ lookup = NoLookups
    /\ future_result = NoResults
    /\ package_versions = NoResults
    /\ pypi = [p \in NameTokens |-> "unknown"]
    /\ requests_made = NoRequests
    /\ changes = <<>>
    /\ stdout = <<>>
    /\ stderr = <<>>
    /\ reads = 0
    /\ writes = 0
    /\ prev_changes = 0
    /\ pool_pending = 0
    /\ pool_queued = 0
    /\ pool_running = 0
    /\ pool_done = 0

(***************************************************************************)
(* Lines 35-40: the file is read, or the read fails and the process exits. *)
(***************************************************************************)
ReadFile ==
    /\ pc = "read"
    /\ reads' = reads + 1
    /\ \/ /\ lines' = ReadLines(disk)
          /\ pc' = "classify"
          /\ UNCHANGED <<exit_code, io_failed, stderr>>
       \/ /\ io_failed' = "read"
          /\ stderr' = Append(stderr, <<"Error reading">>)
          /\ pc' = "exit"
          /\ exit_code' = 1
          /\ UNCHANGED lines
    /\ UNCHANGED <<disk, input_disk, dry_run, private_attrs, run, new_lines,
                   updatable_infos, packages_to_fetch, lookup, future_result,
                   package_versions, pypi, requests_made, changes, stdout,
                   writes, prev_changes, poolVars>>

(***************************************************************************)
(* Lines 42-93: the classification loop.  An exception of line 62 is not   *)
(* caught: the interpreter prints a traceback and exits with status 1.     *)
(***************************************************************************)
ClassifyLines ==
    /\ pc = "classify"
    /\ IF \E i \in 1..Len(lines) : Classify(lines[i], private_attrs) = "raise"
       THEN /\ pc' = "exit"
            /\ exit_code' = 1
            /\ stderr' = Append(stderr, <<"Traceback">>)
            /\ UNCHANGED <<new_lines, updatable_infos, packages_to_fetch>>
       ELSE /\ new_lines' = lines
            /\ updatable_infos' = InfosOf(lines, private_attrs)
            /\ packages_to_fetch' =
                  {updatable_infos'[k].name : k \in 1..Len(updatable_infos')}
            /\ pc' = "resolve"
            /\ UNCHANGED <<exit_code, stderr>>
    /\ UNCHANGED <<disk, input_disk, dry_run, private_attrs, run, io_failed,
                   lines, lookup, future_result, package_versions, pypi,
                   requests_made, changes, stdout, reads, writes,
                   prev_changes, poolVars>>


(***************************************************************************)
(* Lines 95-106: the lookups.  ThreadPoolExecutor(max_workers=20) runs at  *)
(* most max_workers work items at a time; the others wait in its queue.    *)
(***************************************************************************)
max_workers == 20

\* CanStart with a fault: the pool admits one lookup too many
CanStart_OffByOne(in_flight) == in_flight <= max_workers

\* whether a worker thread is free to take the next work item
CanStart(in_flight) == in_flight < max_workers

InFlight == Cardinality({p \in NameTokens : lookup[p] = "running"})

\* line 98: executor.submit(get_latest_version, pkg)
SubmitLookup(p) ==
    /\ pc = "resolve"
    /\ p \in packages_to_fetch
    /\ lookup[p] = "none"
    /\ lookup' = [lookup EXCEPT ![p] = "queued"]
    /\ UNCHANGED <<disk, input_disk, dry_run, private_attrs, run, pc,
                   exit_code, io_failed, lines, new_lines, updatable_infos,
                   packages_to_fetch, future_result, package_versions, pypi,
                   requests_made, changes, stdout, stderr, reads, writes,
                   prev_changes, poolVars>>

\* a worker thread takes the work item and calls requests.get (line 11)
StartLookup(p) ==
    /\ lookup[p] = "queued"
    /\ CanStart(InFlight)
    /\ lookup' = [lookup EXCEPT ![p] = "running"]
    /\ requests_made' = [requests_made EXCEPT ![p] = @ + 1]
    /\ UNCHANGED <<disk, input_disk, dry_run, private_attrs, run, pc,
                   exit_code, io_failed, lines, new_lines, updatable_infos,
                   packages_to_fetch, future_result, package_versions, pypi,
                   changes, stdout, stderr, reads, writes,
                   prev_changes, poolVars>>

\* lines 10-16: get_latest_version returns the version of the JSON body, or
\* None on any exception; the index answers the same for a name every time
FinishLookup(p) ==
    /\ lookup[p] = "running"
    /\ \E answer \in IndexAnswers :
          /\ pypi[p] \in {"unknown", answer}
          /\ pypi' = [pypi EXCEPT ![p] = answer]
          /\ future_result' = [future_result EXCEPT ![p] = answer]
    /\ lookup' = [lookup EXCEPT ![p] = "done"]
    /\ UNCHANGED <<disk, input_disk, dry_run, private_attrs, run, pc,
                   exit_code, io_failed, lines, new_lines, updatable_infos,
                   packages_to_fetch, package_versions, requests_made,
                   changes, stdout, stderr, reads, writes,
                   prev_changes, poolVars>>

\* lines 99-104: as_completed yields a finished future; future.result()
\* never raises, get_latest_version having caught every Exception, so the
\* warning of line 106 is never printed
CollectResult(p) ==
    /\ pc = "resolve"
    /\ \A q \in packages_to_fetch : lookup[q] # "none"
    /\ lookup[p] = "done"
    /\ lookup' = [lookup EXCEPT ![p] = "collected"]
    /\ package_versions' =
          IF future_result[p] # None
          THEN [package_versions EXCEPT ![p] = future_result[p]]
          ELSE package_versions
    /\ UNCHANGED <<disk, input_disk, dry_run, private_attrs, run, pc,
                   exit_code, io_failed, lines, new_lines, updatable_infos,
                   packages_to_fetch, future_result, pypi, requests_made,
                   changes, stdout, stderr, reads, writes,
                   prev_changes, poolVars>>

\* LookupsComplete with a fault: the loop ends at the first future yielded
LookupsComplete_Any ==
    packages_to_fetch # {}
        => \E p \in packages_to_fetch : lookup[p] = "collected"

\* lines 96-99: the as_completed loop and the with block end once every
\* future has been yielded (at once when there is nothing to fetch)
LookupsComplete == \A p \in packages_to_fetch : lookup[p] = "collected"

ResolveDone ==
    /\ pc = "resolve"
    /\ LookupsComplete
    /\ pc' = "decide"
    /\ UNCHANGED <<disk, input_disk, dry_run, private_attrs, run, exit_code,
                   io_failed, lines, new_lines, updatable_infos,
                   packages_to_fetch, lookup, future_result, package_versions,
                   pypi, requests_made, changes, stdout, stderr, reads,
                   writes, prev_changes, poolVars>>

(***************************************************************************)
(* Lines 108-126: the decision loop.                                       *)
(***************************************************************************)
\* Newer with a fault: >= for >
Newer_OrEqual(latest_str, current_version) ==
    ~VersionGT(current_version, latest_str)

\* line 115, with current_version the Version the code takes _version for
Newer(latest_str, current_version) == VersionGT(latest_str, current_version)

\* NewReqStr with a fault: the pin is re-emitted with the version it had
NewReqStr_KeepsCurrent(info, latest_str) ==
    <<info.name>> \o info.extras_str \o <<"==", info.current_version>>
    \o info.marker_str

\* line 116
NewReqStr(info, latest_str) ==
    <<info.name>> \o info.extras_str \o <<"==", latest_str>> \o info.marker_str

\* lines 117-121
NewStripped(info, latest_str) ==
    info.leading_ws \o NewReqStr(info, latest_str) \o info.trailing_ws
    \o (IF info.comment_part # <<None>> THEN <<HASH>> \o info.comment_part
        ELSE <<>>)

\* line 122
NewLine(info, latest_str) ==
    NewStripped(info, latest_str) \o (IF info.has_eol THEN <<LF>> ELSE <<>>)

\* lines 110-115: the line of info is rewritten
Rewritten(info, versions) ==
    /\ versions[info.name] # None
    /\ IsVersion(versions[info.name])
    /\ Newer(versions[info.name], info.current_version)

\* lines 113-114, 125: parse(latest_str) raises
InvalidLatest(info, versions) ==
    versions[info.name] # None /\ ~IsVersion(versions[info.name])

RECURSIVE ChangesOf(_, _)
\* line 124, over the loop
ChangesOf(infos, versions) ==
    IF infos = <<>> THEN <<>>
    ELSE (IF Rewritten(Head(infos), versions)
          THEN <<[line_num |-> Head(infos).line_num,
                  old |-> Head(infos).line_stripped,
                  new |-> NewStripped(Head(infos),
                                      versions[Head(infos).name])]>>
          ELSE <<>>)
         \o ChangesOf(Tail(infos), versions)

RECURSIVE WarningsOf(_, _)
\* line 126, over the loop
WarningsOf(infos, versions) ==
    IF infos = <<>> THEN <<>>
    ELSE (IF InvalidLatest(Head(infos), versions)
          THEN <<<<"Warning: Invalid latest version",
                   versions[Head(infos).name], Head(infos).name>>>>
          ELSE <<>>)
         \o WarningsOf(Tail(infos), versions)

\* line 123, over the loop
NewLinesOf(old_lines, infos, versions) ==
    [i \in 1..Len(old_lines) |->
        IF \E k \in 1..Len(infos) :
              infos[k].temp_index = i /\ Rewritten(infos[k], versions)
        THEN LET k == CHOOSE j \in 1..Len(infos) :
                         /\ infos[j].temp_index = i
                         /\ Rewritten(infos[j], versions)
             IN NewLine(infos[k], versions[infos[k].name])
        ELSE old_lines[i]]

DecideUpdates ==
    /\ pc = "decide"
    /\ new_lines' = NewLinesOf(new_lines, updatable_infos, package_versions)
    /\ changes' = ChangesOf(updatable_infos, package_versions)
    /\ stderr' = stderr \o WarningsOf(updatable_infos, package_versions)
    /\ pc' = "output"
    /\ UNCHANGED <<disk, input_disk, dry_run, private_attrs, run, exit_code,
                   io_failed, lines, updatable_infos, packages_to_fetch,
                   lookup, future_result, package_versions, pypi,
                   requests_made, stdout, reads, writes,
                   prev_changes, poolVars>>

(***************************************************************************)
(* Lines 128-145: the dry-run report, or the write.                        *)
(***************************************************************************)
Msg(kind, line_num, old, new) ==
    [kind |-> kind, line_num |-> line_num, old |-> old, new |-> new]

NoUpdatesMsg == Msg("No updates needed.", 0, <<>>, <<>>)

\* lines 132-134
ReportOf(chs) ==
    <<Msg("Would make the following changes:", 0, <<>>, <<>>)>>
    \o [k \in 1..Len(chs) |->
           Msg("line", chs[k].line_num, chs[k].old, chs[k].new)]

\* line 145
UpdatedMsg(chs) == Msg("Updated: packages updated.", Len(chs), <<>>, <<>>)

\* WritesFile with a fault: the write is not skipped in a dry run
WritesFile_Always(dry) == TRUE

\* lines 128, 135: the else branch opens the file for writing
WritesFile(dry) == ~dry

DryRunReport ==
    /\ pc = "output"
    /\ dry_run
    /\ stdout' = stdout \o (IF changes = <<>> THEN <<NoUpdatesMsg>>
                            ELSE ReportOf(changes))
    /\ pc' = "exit"
    /\ exit_code' = 0
    /\ UNCHANGED <<disk, input_disk, dry_run, private_attrs, run, io_failed,
                   lines, new_lines, updatable_infos, packages_to_fetch,
                   lookup, future_result, package_versions, pypi,
                   requests_made, changes, stderr, reads, writes,
                   prev_changes, poolVars>>

\* lines 136-145.  open(..., "w") may fail, leaving the file as it was, or
\* truncate it and writelines fail after some of the lines
WriteFile ==
    /\ pc = "output"
    /\ WritesFile(dry_run)
    /\ writes' = writes + 1
    /\ pc' = "exit"
    /\ \/ /\ disk' = Concat(new_lines)
          /\ stdout' = stdout \o (IF changes = <<>> THEN <<NoUpdatesMsg>>
                                  ELSE <<UpdatedMsg(changes)>>)
          /\ exit_code' = 0
          /\ UNCHANGED <<io_failed, stderr>>
       \/ /\ \/ disk' = disk
             \/ \E k \in 0..(Len(new_lines) - 1) :
                   disk' = Concat(SubSeq(new_lines, 1, k))
          /\ io_failed' = "write"
          /\ stderr' = Append(stderr, <<"Error writing">>)
          /\ exit_code' = 1
          /\ UNCHANGED stdout
    /\ UNCHANGED <<input_disk, dry_run, private_attrs, run, lines, new_lines,
                   updatable_infos, packages_to_fetch, lookup, future_result,
                   package_versions, pypi, requests_made, changes, reads,
                   prev_changes, poolVars>>

(***************************************************************************)
(* The tool is run again on the file it wrote, the index unchanged.        *)
(***************************************************************************)
RunAgain ==
    /\ pc = "exit"
    /\ exit_code = 0
    /\ ~dry_run
    /\ run < MaxRuns
    /\ run' = run + 1
    /\ input_disk' = disk
    /\ pc' = "read"
    /\ exit_code' = -1
    /\ lines' = <<>>
    /\ new_lines' = <<>>
    /\ updatable_infos' = <<>>
    /\ packages_to_fetch' = {}
    /\ lookup' = NoLookups
    /\ future_result' = NoResults
    /\ package_versions' = NoResults
    /\ requests_made' = NoRequests
    /\ changes' = <<>>
    /\ stdout' = <<>>
    /\ stderr' = <<>>
    /\ reads' = 0
    /\ writes' = 0
    /\ prev_changes' = prev_changes + Len(changes)
    /\ UNCHANGED <<disk, dry_run, private_attrs, io_failed, pypi, poolVars>>

Next ==
    \/ ReadFile
    \/ ClassifyLines
    \/ \E p \in NameTokens : SubmitLookup(p)
    \/ \E p \in NameTokens : StartLookup(p)
    \/ \E p \in NameTokens : FinishLookup(p)
    \/ \E p \in NameTokens : CollectResult(p)
    \/ ResolveDone
    \/ DecideUpdates
    \/ DryRunReport
    \/ WriteFile
    \/ RunAgain

Spec == Init /\ [][Next]_vars


(***************************************************************************)
(* The thread pool alone, for more names than it has workers: the lookups  *)
(* are interchangeable here, so they are counted.  Line 98 submits the     *)
(* names one by one while the workers already run.                         *)
(***************************************************************************)
PoolInit ==
    /\ disk = <<>>
    /\ input_disk = <<>>
    /\ dry_run = FALSE
    /\ private_attrs = TRUE
    /\ run = 1
    /\ pc = "resolve"
    /\ exit_code = -1
    /\ io_failed = "none"
    /\ lines = <<>>
    /\ new_lines = <<>>
    /\ updatable_infos = <<>>
    /\ packages_to_fetch = {}
    /\ lookup = NoLookups
    /\ future_result = NoResults
    /\ package_versions = NoResults
    /\ pypi = [p \in NameTokens |-> "unknown"]
    /\ requests_made = NoRequests
    /\ changes = <<>>
    /\ stdout = <<>>
    /\ stderr = <<>>
    /\ reads = 1
    /\ writes = 0
    /\ prev_changes = 0
    /\ pool_pending \in 0..MaxPoolNames
    /\ pool_queued = 0
    /\ pool_running = 0
    /\ pool_done = 0

\* line 98: executor.submit
PoolSubmit ==
    /\ pool_pending > 0
    /\ pool_pending' = pool_pending - 1
    /\ pool_queued' = pool_queued + 1
    /\ UNCHANGED <<mainVars, pool_running, pool_done>>

\* a free worker thread takes the next work item
PoolStart ==
    /\ pool_queued > 0
    /\ CanStart(pool_running)
    /\ pool_queued' = pool_queued - 1
    /\ pool_running' = pool_running + 1
    /\ UNCHANGED <<mainVars, pool_pending, pool_done>>

\* lines 8-16: get_latest_version returns
PoolFinish ==
    /\ pool_running > 0
    /\ pool_running' = pool_running - 1
    /\ pool_done' = pool_done + 1
    /\ UNCHANGED <<mainVars, pool_pending, pool_queued>>

PoolNext == PoolSubmit \/ PoolStart \/ PoolFinish

PoolSpec == PoolInit /\ [][PoolNext]_vars


(***************************************************************************)
(* Properties.                                                             *)
(***************************************************************************)
RECURSIVE RawLines(_)
\* the lines of a file as they stand in it, each with its own terminator
\* ("\n", "\r\n" or "\r"), the last one possibly unterminated
RawLines(s) ==
    IF s = <<>> THEN <<>>
    ELSE IF \E i \in 1..Len(s) : s[i] \in {CR, LF}
    THEN LET i == CHOOSE n \in 1..Len(s) :
                     /\ s[n] \in {CR, LF}
                     /\ \A j \in 1..(n - 1) : s[j] \notin {CR, LF}
             e == IF s[i] = CR /\ i < Len(s) /\ s[i + 1] = LF THEN i + 1 ELSE i
         IN <<SubSeq(s, 1, e)>> \o RawLines(SubSeq(s, e + 1, Len(s)))
    ELSE <<s>>

ChangedLineNums == {changes[k].line_num : k \in 1..Len(changes)}

\* the run has ended with the file written
Applied == pc = "exit" /\ exit_code = 0 /\ ~dry_run

\* C1: in apply mode the output has as many lines as the input, and every
\* line not selected for update is the input line byte for byte, its
\* newline style included
C1_RoundTrip ==
    Applied =>
        LET inl == RawLines(input_disk)
            outl == RawLines(disk)
        IN /\ Len(outl) = Len(inl)
           /\ \A i \in 1..Len(inl) :
                 i \notin ChangedLineNums => outl[i] = inl[i]

\* old and new are of one shape and differ only in version tokens and in
\* the order of the extras
OnlyVersionAndExtrasDiffer(old, new) ==
    /\ Len(old) = Len(new)
    /\ \A i \in 1..Len(old) :
          \/ old[i] = new[i]
          \/ IsVersion(old[i]) /\ IsVersion(new[i])
          \/ old[i] \in ExtraTokens /\ new[i] \in ExtraTokens
    /\ {old[i] : i \in {j \in 1..Len(old) : old[j] \in ExtraTokens}}
       = {new[i] : i \in {j \in 1..Len(new) : new[j] \in ExtraTokens}}

\* C2: a rewritten line differs from the original only in the version token
\* and possibly the order of the extras
C2_FormatPreserved ==
    \A k \in 1..Len(changes) :
        OnlyVersionAndExtrasDiffer(changes[k].old, changes[k].new)

\* the index answered for the package of info with a version that is not
\* greater than the pinned one
NotNewer(info) ==
    /\ package_versions[info.name] # None
    /\ IsVersion(package_versions[info.name])
    /\ ~VersionGT(package_versions[info.name], info.current_version)

\* C3: a candidate line whose resolved version is less than or equal to its
\* current version is never rewritten and gets no change record
C3_NoDowngrade ==
    \A k \in 1..Len(updatable_infos) :
        LET info == updatable_infos[k] IN
        NotNewer(info) =>
            /\ new_lines[info.temp_index] = lines[info.line_num]
            /\ info.line_num \notin ChangedLineNums

\* a finished run that left alone a pin equal to the latest version under
\* another spelling, and one above the latest version
C3_Witness ==
    /\ pc = "exit" /\ exit_code = 0 /\ writes = 1
    /\ \E k \in 1..Len(updatable_infos) :
          /\ NotNewer(updatable_infos[k])
          /\ package_versions[updatable_infos[k].name]
             # updatable_infos[k].current_version
          /\ ~VersionGT(updatable_infos[k].current_version,
                        package_versions[updatable_infos[k].name])
    /\ \E k \in 1..Len(updatable_infos) :
          VersionGT(updatable_infos[k].current_version,
                    package_versions[updatable_infos[k].name])

\* C4: a second run in apply mode, the index answering as before, records
\* no change and leaves the file as the first run wrote it
C4_Idempotent ==
    run >= 2 =>
        /\ changes = <<>>
        /\ Applied => disk = input_disk

\* a second run ended, after a first one that rewrote a line, and still
\* found a pin whose latest version it knows
C4_Witness ==
    /\ run = 2 /\ Applied /\ prev_changes > 0
    /\ \E k \in 1..Len(updatable_infos) :
          /\ package_versions[updatable_infos[k].name] # None
          /\ IsVersion(package_versions[updatable_infos[k].name])

FetchWarning(p) == <<"Warning: Could not fetch latest version for", p>>

\* C5: a failed lookup leaves the result absent and the pins of the package
\* unchanged, does not abort the run, and a warning for the package is on
\* the error stream
C5_FailedLookupWarned ==
    \A p \in packages_to_fetch :
        (pc = "exit" /\ io_failed = "none" /\ future_result[p] = None) =>
            /\ package_versions[p] = None
            /\ \A k \in 1..Len(updatable_infos) :
                  updatable_infos[k].name = p =>
                      new_lines[updatable_infos[k].temp_index]
                      = lines[updatable_infos[k].line_num]
            /\ exit_code = 0
            /\ \E i \in 1..Len(stderr) : stderr[i] = FetchWarning(p)

\* the index answered for the package of info with a greater version
Eligible(info) ==
    /\ package_versions[info.name] # None
    /\ IsVersion(package_versions[info.name])
    /\ VersionGT(package_versions[info.name], info.current_version)

\* C6: with --dry-run the file is never opened for writing and keeps its
\* content, and at exit every would-be change is reported with the old and
\* the new content of its line
C6_DryRunNeverWrites ==
    dry_run =>
        /\ writes = 0
        /\ disk = input_disk
        /\ (pc = "exit" /\ exit_code = 0) =>
              \A k \in 1..Len(updatable_infos) :
                  LET info == updatable_infos[k] IN
                  Eligible(info) =>
                      \E i \in 1..Len(stdout) :
                          /\ stdout[i].kind = "line"
                          /\ stdout[i].line_num = info.line_num
                          /\ stdout[i].old = info.line_stripped
                          /\ stdout[i].new
                             = LineStripped(new_lines[info.temp_index])
                          /\ stdout[i].new # stdout[i].old

\* a dry run ended after finding an update to make
C6_Witness ==
    /\ dry_run /\ pc = "exit" /\ exit_code = 0
    /\ \E k \in 1..Len(updatable_infos) : Eligible(updatable_infos[k])

\* C7: the exit status is 1 exactly when reading or writing the file
\* failed and 0 otherwise, and a failed write is followed by no success
\* message
C7_ExitStatus ==
    pc = "exit" =>
        /\ exit_code \in {0, 1}
        /\ exit_code = 1 <=> io_failed # "none"
        /\ io_failed = "write" => stdout = <<>>

\* line is a single exact-equality pin of package p
IsCandidateFor(line, p) ==
    LET req == ReqOf(line)
    IN /\ ~SkippedEarly(Strip(SpecPart(LineStripped(line))))
       /\ req.ok
       /\ req.name = p
       /\ Len(req.specs) = 1
       /\ req.specs[1].op = "=="

\* C8: a run that read its file has asked the index exactly once for every
\* name with a candidate line and never for any other name
C8_LookupSet ==
    (pc = "exit" /\ io_failed # "read") =>
        \A p \in NameTokens :
            requests_made[p] =
                IF \E i \in 1..Len(RawLines(input_disk)) :
                      IsCandidateFor(RawLines(input_disk)[i], p)
                THEN 1 ELSE 0

\* C9: no more than 20 lookups are in flight at any time
C9_BoundedInFlight == pool_running <= 20 /\ InFlight <= 20

\* every worker is busy and a name still waits in the queue
C9_Witness == pool_running = 20 /\ pool_queued > 0

\* C10: the file is read once, before any lookup is issued; no decision is
\* taken and no write begins before every lookup issued has been collected;
\* the file is written at most once
C10_PhaseOrder ==
    /\ [](reads <= 1 /\ writes <= 1)
    /\ [][(\E p \in NameTokens : lookup[p] = "none" /\ lookup'[p] # "none")
            => (reads = 1 /\ writes = 0 /\ pc = "resolve")]_vars
    /\ [][((pc = "decide" /\ pc' = "output") \/ writes' > writes)
            => \A p \in NameTokens :
                  lookup[p] = IF p \in packages_to_fetch THEN "collected"
                              ELSE "none"]_vars

\* a run wrote the file after two lookups that ran side by side
C10_Witness ==
    /\ pc = "exit" /\ writes = 1 /\ reads = 1
    /\ Cardinality(packages_to_fetch) = 2
    /\ \A p \in packages_to_fetch : lookup[p] = "collected"

=============================================================================
